---- MODULE Spec2Model ----
(***************************************************************************)
(* Sliding-window inference and merge engine of TokenizationRepairer       *)
(* (src/src/trt/api/__init__.py): repair_text, _repair_text_raw,           *)
(* _merge_inference_results and _inference_result_to_str.                  *)
(*                                                                         *)
(* Strings are sequences of one-character strings, token ids are the       *)
(* characters themselves plus the special ids BOS, EOS and UNK.  Python    *)
(* indices are kept 0-based in batch entries and windows; sequences are    *)
(* 1-based, so s[i] of Python is s[i + 1] here.                            *)
(***************************************************************************)
EXTENDS Integers, Sequences, FiniteSets, TLC

(***************************************************************************)
(* Bounds of the model.                                                    *)
(***************************************************************************)
\* largest encoder.config.max_num_embeddings tried
MaxNumEmbeddings == 10
\* longest raw input string
MaxLen == 15
\* largest batch_size tried
MaxBatchSize == 3
\* most batch entries of a call whose dispatch order is permuted
MaxShuffledEntries == 4

(***************************************************************************)
(* Generic helpers.                                                        *)
(***************************************************************************)
Min(a, b) == IF a <= b THEN a ELSE b

Max(a, b) == IF a >= b THEN a ELSE b

\* Python's s[a:b] for 0 <= a, 0 <= b: both ends are clipped to len(s).
Slice(s, a, b) == SubSeq(s, a + 1, Min(b, Len(s)))

\* Python's s[1:-1].
StripMarkers(s) == SubSeq(s, 2, Len(s) - 1)

\* str.replace(" ", "")
RemoveSpaces(s) == SelectSeq(s, LAMBDA c : c # " ")

\* [v] * n
Repeat(v, n) == [k \in 1..n |-> v]

(***************************************************************************)
(* Configuration computed by __init__.                                     *)
(***************************************************************************)
\* self.max_length: - 2 because of bos and eos tokens
MaxLengthOf(max_num_embeddings) == max_num_embeddings - 2

\* math.ceil(0.75 * self.max_length)
WindowSizeOf(ml) == (3 * ml + 3) \div 4

\* mutant: the context is rounded up
ContextSizeCeil(ml) == (ml - WindowSizeOf(ml) + 1) \div 2

\* math.floor((self.max_length - self.window_size) / 2)
ContextSizeOf(ml) == (ml - WindowSizeOf(ml)) \div 2

(***************************************************************************)
(* Window planner, trt.api.utils.sliding_windows: window starts spaced by  *)
(* window_size, one per started stretch of window_size characters.         *)
(***************************************************************************)
sliding_windows(length, window_size) ==
    [i \in 1..((length + window_size - 1) \div window_size) |-> (i - 1) * window_size]

(***************************************************************************)
(* Characters and tokens.  The char tokenizer maps a character of its      *)
(* vocabulary to itself and every other character to UNK.                  *)
(***************************************************************************)
BOS == "<bos>"

EOS == "<eos>"

UNK == "<unk>"

\* self.ws_token_id = self.char_tokenizer.token_to_id(" ")
ws_token_id == " "

\* self.unk_token_id = self.char_tokenizer.token_to_id(constants.UNK)
unk_token_id == UNK

\* characters of the tokenizer's vocabulary, and one character outside it
VocabChars == {"a", "b", " "}

token_to_id(c) == IF c \in VocabChars \cup {BOS, EOS, UNK} THEN c ELSE UNK

id_to_token(token_id) == token_id

(***************************************************************************)
(* Inference results.  A result that is still missing is None.             *)
(***************************************************************************)
None == [kind |-> "none"]

Err(e) == [kind |-> "error", error |-> e]

SequenceClassificationInferenceResult(predictions, logits) ==
    [kind |-> "cls", predictions |-> predictions, logits |-> logits]

SequenceGenerationInferenceResult(token_ids, token_log_probabilities) ==
    [kind |-> "gen", token_ids |-> token_ids,
     token_log_probabilities |-> token_log_probabilities]

\* a ranked list of generation results, as beam search returns it
BeamList(candidates) == [kind |-> "list", candidates |-> candidates]

IsError(r) == r.kind = "error"

(***************************************************************************)
(* nlp.clean_sequence: leading, trailing and multiple whitespaces go.      *)
(***************************************************************************)
clean_sequence(s) ==
    LET keep(k) == \/ s[k] # " "
                   \/ /\ k > 1
                      /\ s[k - 1] # " "
                      /\ \E j \in (k + 1)..Len(s) : s[j] # " "
        kept == SelectSeq([k \in 1..Len(s) |-> k], keep)
    IN  [m \in 1..Len(kept) |-> s[kept[m]]]

(***************************************************************************)
(* The inference adapter, self.model.inference: one result per substring,  *)
(* in batch order, a function of the substring alone.  A policy names one  *)
(* model; the logit vector of a position is stood for by a number that is  *)
(* different at every position of the substring.                           *)
(***************************************************************************)
ClassificationPolicies == {"keep", "fix"}

GenerationPolicies == {"echo", "respace", "beam", "drop", "wrong", "extra"}

\* label of the k-th character (1-based) of a substring: 0 keep, 1 insert a
\* space in front, 2 delete
LabelOf(policy, substring, k) ==
    IF policy = "keep" THEN 0
    ELSE IF substring[k] = " " THEN (IF k % 2 = 1 THEN 2 ELSE 0)
    ELSE (IF k % 3 = 0 THEN 1 ELSE 0)

ClassifySubstring(policy, substring) ==
    SequenceClassificationInferenceResult(
        <<0>> \o [k \in 1..Len(substring) |-> LabelOf(policy, substring, k)] \o <<0>>,
        <<0>> \o [k \in 1..Len(substring) |-> k] \o <<0>>)

Tokenize(substring) == [k \in 1..Len(substring) |-> token_to_id(substring[k])]

\* a space after every second token
RECURSIVE Respace(_, _)
Respace(tokens, k) ==
    IF k > Len(tokens) THEN <<>>
    ELSE <<tokens[k]>> \o (IF k % 2 = 0 /\ k < Len(tokens) THEN <<" ">> ELSE <<>>)
         \o Respace(tokens, k + 1)

GeneratedTokens(policy, substring) ==
    LET echo == Tokenize(substring)
        strip == RemoveSpaces(echo)
    IN  CASE policy = "echo" -> echo
          [] policy = "respace" -> Respace(strip, 1)
          [] policy = "drop" -> SubSeq(strip, 1, Len(strip) - 1)
          [] policy = "wrong" -> [k \in 1..Len(echo) |->
                                    IF echo[k] = "a" THEN "b" ELSE echo[k]]
          [] policy = "extra" -> echo \o <<UNK>>
          [] OTHER -> Respace(strip, 1)

GenerationResultOf(tokens) ==
    SequenceGenerationInferenceResult(
        <<BOS>> \o tokens \o <<EOS>>,
        <<0>> \o [k \in 1..Len(tokens) |-> 0 - k] \o <<0>>)

\* under "beam" the top candidate is the respaced stream and the candidate
\* ranked below it is a stream that lost its last character
GenerateSubstring(policy, substring) ==
    IF policy = "beam"
    THEN BeamList(<<GenerationResultOf(GeneratedTokens("respace", substring)),
                    GenerationResultOf(GeneratedTokens("drop", substring))>>)
    ELSE GenerationResultOf(GeneratedTokens(policy, substring))

\* self.model.inference(batch_sequences, **kwargs)
Inference(model_type, policy, batch_sequences) ==
    [k \in 1..Len(batch_sequences) |->
        IF model_type = "encoder_with_head"
        THEN ClassifySubstring(policy, batch_sequences[k])
        ELSE GenerateSubstring(policy, batch_sequences[k])]

(***************************************************************************)
(* _merge_inference_results, classification path.                          *)
(***************************************************************************)
\* np.full(input_length, fill_value=-1, dtype=int)
Sentinel == 0 - 1

\* buf[window: window + window_size] = values, as numpy assigns to a slice:
\* the slice is clipped to the buffer, values of the slice's length are
\* copied, a single value is broadcast, any other length is a ValueError.
\* the bounds of buf[window: window + window_size] in a buffer of n positions
CoreStart(window, n) == Min(window, n)

\* mutant: the slice runs one position into the next window's core
CoreEndOneMore(window, window_size, n) == Min(window + window_size + 1, n)

CoreEnd(window, window_size, n) == Min(window + window_size, n)

SliceAssignable(buf, window, window_size, values) ==
    LET lo == CoreStart(window, Len(buf))
        hi == CoreEnd(window, window_size, Len(buf))
    IN  Len(values) = hi - lo \/ Len(values) = 1

SliceAssign(buf, window, window_size, values) ==
    LET lo == CoreStart(window, Len(buf))
        hi == CoreEnd(window, window_size, Len(buf))
    IN  [p \in 1..Len(buf) |->
            IF lo < p /\ p <= hi
            THEN (IF Len(values) = 1 THEN values[1] ELSE values[p - lo])
            ELSE buf[p]]

\* mutant: the left context of a later window is not skipped
StartIdxNoSkip(i, context_size) == 0

\* mutant: the first window skips a left context it does not have
StartIdxAlwaysSkip(i, context_size) == context_size

\* start_idx = 0 if i == 0 else self.context_size (i is 0-based)
StartIdx(i, context_size) == IF i = 0 THEN 0 ELSE context_size

\* the body of the loop over zip(inference_results, windows), from its
\* i-th pair (1-based) on; acc carries merged_predictions, merged_logits
RECURSIVE ClassificationLoop(_, _, _, _, _, _)
ClassificationLoop(acc, inference_results, windows, i, window_size, context_size) ==
    IF i > Min(Len(inference_results), Len(windows)) \/ acc.error # "none" THEN acc
    ELSE
    LET ir == inference_results[i]
        window == windows[i]
        start_idx == StartIdx(i - 1, context_size)
        predictions == Slice(StripMarkers(ir.predictions), start_idx, start_idx + window_size)
        logits == Slice(StripMarkers(ir.logits), start_idx, start_idx + window_size)
        next ==
            IF SliceAssignable(acc.predictions, window, window_size, predictions)
            THEN [error |-> "none",
                  predictions |-> SliceAssign(acc.predictions, window, window_size, predictions),
                  logits |-> SliceAssign(acc.logits, window, window_size, logits)]
            ELSE [acc EXCEPT !.error = "ValueError"]
    IN  ClassificationLoop(next, inference_results, windows, i + 1, window_size, context_size)

\* the path taken when inference_results[0] is a classification result and
\* there is more than one result; windows is sliding_windows(input_length, ...)
MergeClassification(inference_results, input_length, windows, window_size, context_size) ==
    IF Len(inference_results) # Len(windows) THEN Err("AssertionError")
    ELSE
    LET start == [error |-> "none",
                  predictions |-> Repeat(Sentinel, input_length),
                  logits |-> Repeat(0, input_length)]
        acc == ClassificationLoop(start, inference_results, windows, 1,
                                  window_size, context_size)
    IN  IF acc.error # "none" THEN Err(acc.error)
        ELSE IF \E p \in 1..input_length : ~(acc.predictions[p] >= 0)
        THEN Err("AssertionError")
        ELSE SequenceClassificationInferenceResult(
                 <<0>> \o acc.predictions \o <<0>>,
                 <<0>> \o acc.logits \o <<0>>)

(***************************************************************************)
(* Alignment matcher, trt.api.utils.match_token_ids_ignoring_space_and_unk:*)
(* the slice of the token stream that holds the core's non-space           *)
(* characters, found by counting non-space tokens.                         *)
(***************************************************************************)
NonSpaceCount(s) == Len(RemoveSpaces(s))

\* number of non-space tokens among the first j tokens
NonSpaceBefore(token_ids, j) == NonSpaceCount(SubSeq(token_ids, 1, j))

\* first index at which exactly n non-space tokens lie before it
IndexAfter(token_ids, n) ==
    CHOOSE j \in 0..Len(token_ids) :
        /\ NonSpaceBefore(token_ids, j) = n
        /\ \A h \in 0..(j - 1) : NonSpaceBefore(token_ids, h) < n

match_token_ids_ignoring_space_and_unk(token_ids, left_context, window, right_context) ==
    LET nl == NonSpaceCount(left_context)
        nw == NonSpaceCount(window)
        nr == NonSpaceCount(right_context)
        total == NonSpaceCount(token_ids)
    IN  IF total < nl + nw \/ total > nl + nw + nr
        THEN [ok |-> FALSE, from_idx |-> 0, to_idx |-> 0]
        ELSE [ok |-> TRUE,
              from_idx |-> IndexAfter(token_ids, nl),
              to_idx |-> Max(IndexAfter(token_ids, nl), IndexAfter(token_ids, nl + nw))]

(***************************************************************************)
(* _merge_inference_results, generation path.                              *)
(***************************************************************************)
\* input_str[max(0, window - self.context_size):window]
LeftContext(input_str, window, context_size) ==
    Slice(input_str, Max(0, window - context_size), window)

\* input_str[window: window + self.window_size]
CoreWindow(input_str, window, window_size) ==
    Slice(input_str, window, window + window_size)

\* mutant: the right context runs to the end of the input
RightContextToEnd(input_str, window, window_size, context_size) ==
    Slice(input_str, window + window_size, Len(input_str))

\* input_str[window + self.window_size: window + self.window_size + self.context_size]
RightContext(input_str, window, window_size, context_size) ==
    Slice(input_str, window + window_size, window + window_size + context_size)

\* mutant: the two context substrings are handed over in each other's place
MatchWindowContextsSwapped(ir, input_str, window, window_size, context_size) ==
    match_token_ids_ignoring_space_and_unk(
        StripMarkers(ir.token_ids),
        RightContext(input_str, window, window_size, context_size),
        CoreWindow(input_str, window, window_size),
        LeftContext(input_str, window, context_size))

\* from_idx, to_idx = match_token_ids_ignoring_space_and_unk(ir.token_ids[1:-1], ...)
MatchWindow(ir, input_str, window, window_size, context_size) ==
    match_token_ids_ignoring_space_and_unk(
        StripMarkers(ir.token_ids),
        LeftContext(input_str, window, context_size),
        CoreWindow(input_str, window, window_size),
        RightContext(input_str, window, window_size, context_size))

\* ir.token_ids[1:-1][from_idx: to_idx]
TokenSlice(ir, from_idx, to_idx) == Slice(StripMarkers(ir.token_ids), from_idx, to_idx)

\* mutant: the log-probabilities are cut without taking their markers off
LogProbSliceUnstripped(ir, from_idx, to_idx) ==
    Slice(ir.token_log_probabilities, from_idx, to_idx)

\* ir.token_log_probabilities[1:-1][from_idx: to_idx]
LogProbSlice(ir, from_idx, to_idx) ==
    Slice(StripMarkers(ir.token_log_probabilities), from_idx, to_idx)

RECURSIVE GenerationLoop(_, _, _, _, _, _, _)
GenerationLoop(acc, inference_results, windows, i, input_str, window_size, context_size) ==
    IF i > Min(Len(inference_results), Len(windows)) \/ acc.error # "none" THEN acc
    ELSE
    LET ir == inference_results[i]
        window == windows[i]
        m == MatchWindow(ir, input_str, window, window_size, context_size)
        next ==
            IF ~(ir.token_ids[1] = BOS /\ ir.token_ids[Len(ir.token_ids)] = EOS)
            THEN [acc EXCEPT !.error = "AssertionError"]
            ELSE IF ~m.ok THEN [acc EXCEPT !.error = "AssertionError"]
            ELSE [error |-> "none",
                  token_ids |-> acc.token_ids \o TokenSlice(ir, m.from_idx, m.to_idx),
                  log_probabilities |-> acc.log_probabilities \o
                      LogProbSlice(ir, m.from_idx, m.to_idx)]
    IN  GenerationLoop(next, inference_results, windows, i + 1, input_str,
                       window_size, context_size)

MergeGeneration(inference_results, input_str, windows, window_size, context_size) ==
    IF Len(inference_results) # Len(windows) THEN Err("AssertionError")
    ELSE
    LET start == [error |-> "none", token_ids |-> <<>>, log_probabilities |-> <<>>]
        acc == GenerationLoop(start, inference_results, windows, 1, input_str,
                              window_size, context_size)
    IN  IF acc.error # "none" THEN Err(acc.error)
        ELSE SequenceGenerationInferenceResult(
                 <<BOS>> \o acc.token_ids \o <<EOS>>,
                 <<0>> \o acc.log_probabilities \o <<0>>)

(***************************************************************************)
(* _merge_inference_results.                                               *)
(***************************************************************************)
\* mutant: the candidate ranked last is taken
LastBeams(inference_results) ==
    [k \in 1..Len(inference_results) |->
        inference_results[k].candidates[Len(inference_results[k].candidates)]]

\* inference_results = [irs[0] for irs in inference_results]
TopBeams(inference_results) ==
    [k \in 1..Len(inference_results) |-> inference_results[k].candidates[1]]

MergeWithWindows(inference_results, input_str, windows, window_size, context_size) ==
    IF Len(inference_results) = 0 THEN Err("AssertionError")
    ELSE IF inference_results[1].kind = "cls"
    THEN IF Len(inference_results) = 1 THEN inference_results[1]
         ELSE MergeClassification(inference_results, Len(input_str), windows,
                                  window_size, context_size)
    ELSE LET tops == IF inference_results[1].kind = "list"
                     THEN TopBeams(inference_results)
                     ELSE inference_results
         IN  IF Len(tops) = 1 THEN tops[1]
             ELSE MergeGeneration(tops, input_str, windows, window_size, context_size)

_merge_inference_results(inference_results, input_str, window_size, context_size) ==
    MergeWithWindows(inference_results, input_str,
                     sliding_windows(Len(input_str), window_size),
                     window_size, context_size)

(***************************************************************************)
(* _inference_result_to_str.                                               *)
(***************************************************************************)
Str(chars) == [kind |-> "str", chars |-> chars]

\* tokenization_repair.repair_whitespace: label 1 puts a space in front of a
\* character, label 2 deletes a space, every other label keeps the character
repair_whitespace(input_str, repair_tokens) ==
    LET n == Min(Len(input_str), Len(repair_tokens))
        \* two places per character: the space put in front of it, and itself
        places == [m \in 1..(2 * n) |->
                     LET k == (m + 1) \div 2
                     IN  IF m % 2 = 1
                         THEN (IF repair_tokens[k] = 1 /\ input_str[k] # " "
                               THEN " " ELSE "")
                         ELSE (IF repair_tokens[k] = 2 /\ input_str[k] = " "
                               THEN "" ELSE input_str[k])]
    IN  SelectSeq(places, LAMBDA c : c # "")

\* mutant: every token is decoded, the unknown token to its own glyph
DecodedChar(token_id, input_str_no_spaces, ptr) == id_to_token(token_id)

\* char = id_to_token(token_id) if token_id != self.unk_token_id
\*        else input_str_no_spaces[input_str_no_spaces_ptr]
RenderedChar(token_id, input_str_no_spaces, ptr) ==
    IF token_id # unk_token_id THEN id_to_token(token_id)
    ELSE input_str_no_spaces[ptr + 1]

\* the loop over inference_result.token_ids[1:-1], from its k-th token on;
\* acc carries output_chars and input_str_no_spaces_ptr
RECURSIVE RenderLoop(_, _, _, _)
RenderLoop(acc, token_ids, k, input_str_no_spaces) ==
    IF k > Len(token_ids) \/ acc.error # "none" THEN acc
    ELSE
    LET token_id == token_ids[k]
        next ==
            IF token_id = ws_token_id
            THEN [acc EXCEPT !.output_chars = Append(@, " ")]
            ELSE IF token_id = unk_token_id /\ acc.ptr >= Len(input_str_no_spaces)
            THEN [acc EXCEPT !.error = "IndexError"]
            ELSE [acc EXCEPT !.output_chars =
                                 Append(@, RenderedChar(token_id, input_str_no_spaces,
                                                        acc.ptr)),
                             !.ptr = @ + 1]
    IN  RenderLoop(next, token_ids, k + 1, input_str_no_spaces)

\* assert input_str_no_spaces_ptr == len(input_str_no_spaces)
PointerCheck(ptr, input_str_no_spaces) == ptr = Len(input_str_no_spaces)

\* mutant: the comparison of the output with the input is left out
OutputCheckSkipped(output_str, input_str_no_spaces) == TRUE

\* assert output_str_no_spaces == input_str_no_spaces
OutputCheck(output_str, input_str_no_spaces) ==
    RemoveSpaces(output_str) = input_str_no_spaces

RenderGeneration(inference_result, input_str) ==
    LET input_str_no_spaces == RemoveSpaces(input_str)
        acc == RenderLoop([error |-> "none", output_chars |-> <<>>, ptr |-> 0],
                          StripMarkers(inference_result.token_ids), 1,
                          input_str_no_spaces)
    IN  IF acc.error # "none" THEN Err(acc.error)
        ELSE IF ~PointerCheck(acc.ptr, input_str_no_spaces) THEN Err("AssertionError")
        ELSE IF ~OutputCheck(acc.output_chars, input_str_no_spaces)
        THEN Err("AssertionError")
        ELSE Str(acc.output_chars)

_inference_result_to_str(inference_result, input_str) ==
    IF inference_result.kind = "cls"
    THEN Str(repair_whitespace(input_str, StripMarkers(inference_result.predictions)))
    ELSE RenderGeneration(inference_result, input_str)

(***************************************************************************)
(* _repair_text_raw: the batch entries (input_idx, from_, to_, position).  *)
(***************************************************************************)
\* mutant: an input is split as soon as it is longer than one window
FitsContextWindow(length, max_length) == length <= WindowSizeOf(max_length)

\* if length <= self.max_length
FitsContext(length, max_length) == length <= max_length

\* max(0, window - self.context_size)
ExpandedFrom(window, context_size) == Max(0, window - context_size)

\* min(length, window + self.window_size + self.context_size)
ExpandedTo(length, window, window_size, context_size) ==
    Min(length, window + window_size + context_size)

\* the entries one input appends to batches
EntriesOf(input_idx, length, max_length, window_size, context_size) ==
    IF FitsContext(length, max_length)
    THEN << <<input_idx, 0, length, 0>> >>
    ELSE LET windows == sliding_windows(length, window_size)
         IN  [i \in 1..Len(windows) |->
                 <<input_idx,
                   ExpandedFrom(windows[i], context_size),
                   ExpandedTo(length, windows[i], window_size, context_size),
                   i - 1>>]

\* batches after the loop over enumerate(inputs)
RECURSIVE AllEntries(_, _, _, _, _)
AllEntries(inputs_, input_idx, max_length, window_size, context_size) ==
    IF input_idx >= Len(inputs_) THEN <<>>
    ELSE EntriesOf(input_idx, Len(inputs_[input_idx + 1]), max_length,
                   window_size, context_size)
         \o AllEntries(inputs_, input_idx + 1, max_length, window_size, context_size)

\* all_inference_results after the loop: [None] or [None] * len(windows)
EmptySlots(inputs_, max_length, window_size, context_size) ==
    [input_idx \in 0..(Len(inputs_) - 1) |->
        Repeat(None, Len(EntriesOf(input_idx, Len(inputs_[input_idx + 1]),
                                   max_length, window_size, context_size)))]

\* key=lambda e: e[2] - e[1]
EntryLength(e) == e[3] - e[2]

\* sorted(batches, key=..., reverse=True): stable, longest first
InsertDescending(sorted, e) ==
    LET k == Cardinality({j \in 1..Len(sorted) : EntryLength(sorted[j]) >= EntryLength(e)})
    IN  SubSeq(sorted, 1, k) \o <<e>> \o SubSeq(sorted, k + 1, Len(sorted))

RECURSIVE SortedByLength(_, _)
SortedByLength(entries, done) ==
    IF entries = <<>> THEN done
    ELSE SortedByLength(Tail(entries), InsertDescending(done, Head(entries)))

\* if sort_by_length: batches = sorted(...)
OrderBatches(entries, sort) == IF sort THEN SortedByLength(entries, <<>>) ELSE entries

\* inputs[input_idx][from_:to_] for each entry of the batch
BatchSequences(inputs_, batch) ==
    [k \in 1..Len(batch) |-> Slice(inputs_[batch[k][1] + 1], batch[k][2], batch[k][3])]

\* mutant: the slice takes one entry of the next batch along
BatchOneMore(batches_, batch_idx_, batch_size_) ==
    Slice(batches_, batch_idx_, batch_idx_ + batch_size_ + 1)

\* batch = batches[batch_idx: batch_idx + batch_size]
Batch(batches_, batch_idx_, batch_size_) ==
    Slice(batches_, batch_idx_, batch_idx_ + batch_size_)

\* " " == x for x an int: in Python a str never equals an int
StrEqualsInt(c, x) == FALSE

\* " " not in ipt, for ipt an entry of batch: the tuple
\* (input_idx, from_, to_, position) of four ints
NoSpaces(entry) == \A j \in 1..Len(entry) : ~StrEqualsInt(" ", entry[j])

\* kwargs before self.inference_kwargs are added
Kwargs(model_type_, batch, batch_sequences) ==
    IF model_type_ = "encoder_with_head"
    THEN [no_spaces |-> [k \in 1..Len(batch) |-> NoSpaces(batch[k])]]
    ELSE [input_strings |->
             [k \in 1..Len(batch_sequences) |-> RemoveSpaces(batch_sequences[k])]]

\* mutant: a result goes to the first free slot of its input
StoreResultInOrder(slots, entry, inference_result) ==
    LET free == {k \in 1..Len(slots[entry[1]]) : slots[entry[1]][k] = None}
    IN  [slots EXCEPT ![entry[1]][CHOOSE k \in free : \A h \in free : k <= h] =
            inference_result]

\* all_inference_results[input_idx][position] = inference_result
StoreResult(slots, entry, inference_result) ==
    [slots EXCEPT ![entry[1]][entry[4] + 1] = inference_result]

\* mutant: the results are paired with the entries of the batch back to front
RECURSIVE RouteReversed(_, _, _, _)
RouteReversed(slots, batch, batch_inference_results, k) ==
    IF k > Min(Len(batch), Len(batch_inference_results)) THEN slots
    ELSE RouteReversed(
             StoreResult(slots, batch[k],
                         batch_inference_results[Len(batch_inference_results) + 1 - k]),
             batch, batch_inference_results, k + 1)

\* the loop over zip(batch, batch_inference_results), from its k-th pair on
RECURSIVE Route(_, _, _, _)
Route(slots, batch, batch_inference_results, k) ==
    IF k > Min(Len(batch), Len(batch_inference_results)) THEN slots
    ELSE Route(StoreResult(slots, batch[k], batch_inference_results[k]),
               batch, batch_inference_results, k + 1)

(***************************************************************************)
(* repair_text: the argument and the value returned.                       *)
(***************************************************************************)
\* An argument is [type, strings]: "str" is one string, "list" a list of
\* strings, "mixed" a list whose first items are the strings given and whose
\* last item is not a string, "other" any other object.

\* mutant: every list passes, the empty one too
AnyListValid(a) == a.type \in {"str", "list", "mixed"}

\* input_is_string or (isinstance(inputs, list) and len(inputs) > 0
\*                     and isinstance(inputs[0], str))
ValidArgument(a) ==
    a.type = "str" \/ (a.type \in {"list", "mixed"} /\ Len(a.strings) > 0)

\* nlp.clean_sequence(ipt) returns for every str and raises for any other item
Cleanable(a) == a.type # "mixed"

\* mutant: the list of outputs is returned whatever the argument was
ReturnedList(input_is_string, outputs_) == [type |-> "list", strings |-> outputs_]

\* outputs[0] if input_is_string else outputs
Returned(input_is_string, outputs_) ==
    IF input_is_string THEN [type |-> "str", strings |-> <<outputs_[1]>>]
    ELSE [type |-> "list", strings |-> outputs_]

(***************************************************************************)
(* The arguments tried: raw strings cut from two periodic texts.           *)
(***************************************************************************)
PlainText == <<"a", "b", " ">>

UncleanText == <<" ", "a", "x", " ", " ", "b">>

Texts == {PlainText, UncleanText}

RawString(text, n) == [k \in 1..n |-> text[((k - 1) % Len(text)) + 1]]

RawStrings == {RawString(t, n) : t \in Texts, n \in 0..MaxLen}

\* the text of 1000 characters that a model of 802 embeddings (max_length 800,
\* window_size 600, context_size 100) splits into two windows
ScenarioArgument == [type |-> "list", strings |-> <<RawString(PlainText, 1000)>>]

ScenarioEmbeddings == {802}

Arguments ==
    {[type |-> "str", strings |-> <<RawString(UncleanText, n)>>] : n \in 0..MaxLen}
    \cup {[type |-> "list", strings |-> <<s>>] : s \in RawStrings}
    \cup {[type |-> "list", strings |-> <<s, RawString(PlainText, MaxLen)>>] :
              s \in RawStrings}
    \cup {[type |-> "list", strings |-> <<>>], [type |-> "other", strings |-> <<>>],
          [type |-> "mixed", strings |-> <<RawString(PlainText, MaxLen)>>]}

(***************************************************************************)
(* State.                                                                  *)
(***************************************************************************)
VARIABLES
    model_type,             \* self.cfg.model.type
    policy,                 \* the model behind self.model.inference
    max_length,             \* self.max_length
    window_size,            \* self.window_size
    context_size,           \* self.context_size
    arg,                    \* repair_text's inputs argument
    batch_size,             \* repair_text's batch_size
    sort_by_length,         \* repair_text's sort_by_length
    inputs,                 \* the cleaned inputs
    batches,                \* _repair_text_raw's batches
    batch_idx,              \* start of the next batch within batches
    all_inference_results,  \* input_idx -> list of results, one per window
    calls,                  \* the adapter calls made so far
    inference_results,      \* the merged results, one per input
    returned,               \* repair_text's return value
    error,                  \* the exception that ended the call, or "none"
    pc                      \* where the call is

vars == <<model_type, policy, max_length, window_size, context_size, arg,
          batch_size, sort_by_length, inputs, batches, batch_idx,
          all_inference_results, calls, inference_results, returned, error, pc>>

config == <<model_type, policy, max_length, window_size, context_size, arg,
            batch_size, sort_by_length>>

NoReturn == [type |-> "none", strings |-> <<>>]

\* the model of ScenarioEmbeddings is tried with the classification head and
\* the text of 1000 characters only
Init ==
    /\ model_type \in {"encoder_with_head", "transformer"}
    /\ policy \in (IF model_type = "encoder_with_head"
                   THEN ClassificationPolicies ELSE GenerationPolicies)
    /\ \E max_num_embeddings \in
              {MaxNumEmbeddings - 4, MaxNumEmbeddings}
              \cup (IF model_type = "encoder_with_head" THEN ScenarioEmbeddings ELSE {}) :
          /\ max_length = MaxLengthOf(max_num_embeddings)
          /\ window_size = WindowSizeOf(MaxLengthOf(max_num_embeddings))
          /\ context_size = ContextSizeOf(MaxLengthOf(max_num_embeddings))
          /\ arg \in (IF max_num_embeddings \in ScenarioEmbeddings
                      THEN {ScenarioArgument} ELSE Arguments)
    /\ batch_size \in 1..MaxBatchSize
    /\ sort_by_length \in BOOLEAN
    /\ inputs = <<>>
    /\ batches = <<>>
    /\ batch_idx = 0
    /\ all_inference_results = <<>>
    /\ calls = <<>>
    /\ inference_results = <<>>
    /\ returned = NoReturn
    /\ error = "none"
    /\ pc = "call"

(***************************************************************************)
(* repair_text up to the call of _repair_text_raw: the argument is checked *)
(* and the inputs are cleaned.                                             *)
(***************************************************************************)
Validate ==
    /\ pc = "call"
    /\ IF ~ValidArgument(arg)
       THEN /\ inputs' = inputs
            /\ pc' = "failed"
            /\ error' = "AssertionError"
       ELSE IF ~Cleanable(arg)
       THEN /\ inputs' = inputs
            /\ pc' = "failed"
            /\ error' = "TypeError"
       ELSE /\ inputs' = [i \in 1..Len(arg.strings) |-> clean_sequence(arg.strings[i])]
            /\ pc' = "schedule"
            /\ error' = "none"
    /\ UNCHANGED <<config, batches, batch_idx, all_inference_results, calls,
                   inference_results, returned>>

(***************************************************************************)
(* _repair_text_raw up to its batch loop: every input is split into        *)
(* entries, the slots are allocated, the entries are ordered.              *)
(***************************************************************************)
Schedule ==
    /\ pc = "schedule"
    /\ batches' = OrderBatches(
                      AllEntries(inputs, 0, max_length, window_size, context_size),
                      sort_by_length)
    /\ all_inference_results' = EmptySlots(inputs, max_length, window_size, context_size)
    /\ batch_idx' = 0
    /\ pc' = "loop"
    /\ UNCHANGED <<config, inputs, calls, inference_results, returned, error>>

(***************************************************************************)
(* One pass of the batch loop: the next batch_size entries are cut, sent   *)
(* to the adapter and the results stored in their slots.                   *)
(***************************************************************************)
Dispatch ==
    /\ pc = "loop"
    /\ batch_idx < Len(batches)
    /\ LET batch == Batch(batches, batch_idx, batch_size)
           batch_sequences == BatchSequences(inputs, batch)
           batch_inference_results == Inference(model_type, policy, batch_sequences)
       IN  /\ all_inference_results' =
                  Route(all_inference_results, batch, batch_inference_results, 1)
           /\ calls' = Append(calls, [batch |-> batch,
                                      batch_sequences |-> batch_sequences,
                                      kwargs |-> Kwargs(model_type, batch, batch_sequences),
                                      results |-> batch_inference_results])
    /\ batch_idx' = batch_idx + batch_size
    /\ UNCHANGED <<config, inputs, batches, inference_results, returned, error, pc>>

(***************************************************************************)
(* The return of _repair_text_raw: every input's results are merged, in    *)
(* input order; the first merge that raises ends the call.                 *)
(***************************************************************************)
MergedResults ==
    [i \in 1..Len(inputs) |->
        _merge_inference_results(all_inference_results[i - 1], inputs[i],
                                 window_size, context_size)]

FirstError(results) ==
    results[CHOOSE i \in 1..Len(results) :
                /\ IsError(results[i])
                /\ \A j \in 1..(i - 1) : ~IsError(results[j])].error

Merge ==
    /\ pc = "loop"
    /\ batch_idx >= Len(batches)
    /\ LET merged == MergedResults
       IN  IF \E i \in 1..Len(merged) : IsError(merged[i])
           THEN /\ inference_results' = inference_results
                /\ error' = FirstError(merged)
                /\ pc' = "failed"
           ELSE /\ inference_results' = merged
                /\ error' = "none"
                /\ pc' = "render"
    /\ UNCHANGED <<config, inputs, batches, batch_idx, all_inference_results,
                   calls, returned>>

(***************************************************************************)
(* The rest of repair_text: every merged result is rendered against its    *)
(* cleaned input and the outputs are returned in the argument's shape.     *)
(***************************************************************************)
Outputs ==
    [i \in 1..Len(inputs) |-> _inference_result_to_str(inference_results[i], inputs[i])]

Render ==
    /\ pc = "render"
    /\ LET outputs == Outputs
       IN  IF \E i \in 1..Len(outputs) : IsError(outputs[i])
           THEN /\ returned' = returned
                /\ error' = FirstError(outputs)
                /\ pc' = "failed"
           ELSE /\ returned' = Returned(arg.type = "str",
                                        [i \in 1..Len(outputs) |-> outputs[i].chars])
                /\ error' = "none"
                /\ pc' = "done"
    /\ UNCHANGED <<config, inputs, batches, batch_idx, all_inference_results,
                   calls, inference_results>>

Next == Validate \/ Schedule \/ Dispatch \/ Merge \/ Render

Spec == Init /\ [][Next]_vars

(***************************************************************************)
(* Helpers of the properties.                                              *)
(***************************************************************************)
Classification == model_type = "encoder_with_head"

Generation == model_type = "transformer"

\* the batch loop has ended
LoopDone == pc \in {"render", "done"} \/ (pc = "loop" /\ batch_idx >= Len(batches))

\* the call has got as far as merging and the merge did not raise
Merged == pc \in {"render", "done"}

LongInput(i) == Len(inputs[i]) > max_length

\* the windows whose core [start, min(start + ws, length)) holds position p
CoresHolding(p, length, ws) ==
    LET windows == sliding_windows(length, ws)
    IN  {k \in 1..Len(windows) :
            CoreStart(windows[k], length) <= p /\ p < CoreEnd(windows[k], ws, length)}

\* the adapter's answers to the entry (input_idx, position), over all calls
AnswersTo(input_idx, position) ==
    {<<c, j>> \in (1..Len(calls)) \X (1..MaxBatchSize) :
        /\ j <= Len(calls[c].batch)
        /\ calls[c].batch[j][1] = input_idx
        /\ calls[c].batch[j][4] = position}

(***************************************************************************)
(* C1.  For every input length and every window size, the core regions     *)
(* [start, min(start + window_size, length)) of the planned windows, in    *)
(* plan order, tile [0, length): the starts increase, no core is empty and *)
(* every position lies in the core of exactly one window.                  *)
(***************************************************************************)
PlanTiles(length, ws) ==
    LET windows == sliding_windows(length, ws)
    IN  /\ \A k \in 1..(Len(windows) - 1) : windows[k] < windows[k + 1]
        /\ \A k \in 1..Len(windows) :
               CoreStart(windows[k], length) < CoreEnd(windows[k], ws, length)
        /\ \A p \in 0..(length - 1) : Cardinality(CoresHolding(p, length, ws)) = 1

\* the configured window size and, for the short texts, every small one
WindowSizesTried(length) ==
    {window_size} \cup (IF length <= MaxLen THEN 1..MaxNumEmbeddings ELSE {})

\* C1: the cores of the planned windows tile [0, length), each position in exactly one
C1_CoreRegionsTile ==
    (pc = "loop" /\ batch_idx = 0) =>
        \A i \in 1..Len(inputs) : \A ws \in WindowSizesTried(Len(inputs[i])) :
            PlanTiles(Len(inputs[i]), ws)

\* a merged classification input of three windows whose last core is short
C1_Witness ==
    /\ Merged /\ Classification
    /\ \E i \in 1..Len(inputs) :
          /\ Len(sliding_windows(Len(inputs[i]), window_size)) >= 3
          /\ Len(inputs[i]) % window_size # 0
          /\ Len(inference_results[i].predictions) = Len(inputs[i]) + 2

(***************************************************************************)
(* C2.  With a classification adapter that returns one valid label per     *)
(* character plus two markers, the call never fails after its argument was *)
(* accepted, and the merged label buffer of every input longer than        *)
(* max_length has the input's length and no sentinel left.  The text of    *)
(* 1000 characters with window_size 600 and context_size 100 is planned as *)
(* two windows starting at 0 and 600, sent as [0, 700) and [500, 1000).    *)
(***************************************************************************)
BufferFilled(i) ==
    LET predictions == StripMarkers(inference_results[i].predictions)
    IN  /\ Len(predictions) = Len(inputs[i])
        /\ \A p \in 1..Len(predictions) :
               predictions[p] # Sentinel /\ predictions[p] >= 0

ScenarioPlanned ==
    (Len(inputs) = 1 /\ Len(inputs[1]) = 1000 /\ window_size = 600 /\ context_size = 100)
        => /\ sliding_windows(Len(inputs[1]), window_size) = <<0, 600>>
           /\ AllEntries(inputs, 0, max_length, window_size, context_size)
                  = << <<0, 0, 700, 0>>, <<0, 500, 1000, 1>> >>

\* C2: the classification merge of a long input fills every position and does not raise
C2_ClassificationBufferFilled ==
    Classification =>
        /\ pc = "failed" => ~(ValidArgument(arg) /\ Cleanable(arg))
        /\ (pc = "loop" /\ batch_idx = 0) => ScenarioPlanned
        /\ pc = "render" => \A i \in 1..Len(inputs) : LongInput(i) => BufferFilled(i)

\* the text of 1000 characters, merged from its two windows
C2_Witness ==
    /\ Classification /\ pc = "render"
    /\ window_size = 600 /\ context_size = 100
    /\ Len(inputs[1]) = 1000
    /\ Len(all_inference_results[0]) = 2
    /\ BufferFilled(1)

(***************************************************************************)
(* C3.  In the merge of a classification input of several windows, the     *)
(* label and the logits at every position p are the ones the adapter       *)
(* returned for character p in the window whose core holds p: that window  *)
(* was sent from its start minus context_size (from 0 for window 0), so    *)
(* the value is read at offset p - start (+ context_size) behind the       *)
(* marker, and no value of a context character is written.                 *)
(***************************************************************************)
LabelFromOwnWindow(i, p) ==
    LET windows == sliding_windows(Len(inputs[i]), window_size)
        holding == CoresHolding(p, Len(inputs[i]), window_size)
    IN  /\ Cardinality(holding) = 1
        /\ \A k \in holding :
              /\ Cardinality(AnswersTo(i - 1, k - 1)) = 1
              /\ \A a \in AnswersTo(i - 1, k - 1) :
                    LET entry == calls[a[1]].batch[a[2]]
                        answer == calls[a[1]].results[a[2]]
                        skipped == IF k = 1 THEN 0 ELSE context_size
                    IN  /\ entry[2] = windows[k] - skipped
                        /\ p - entry[2] < Len(answer.predictions) - 2
                        /\ inference_results[i].predictions[p + 2]
                               = answer.predictions[(p - entry[2]) + 2]
                        /\ inference_results[i].logits[p + 2]
                               = answer.logits[(p - entry[2]) + 2]

\* C3: every merged label is the adapter's label for that character in the window whose core holds it
C3_LabelsFromOwnWindow ==
    (Classification /\ pc = "render") =>
        \A i \in 1..Len(inputs) : LongInput(i) =>
            \A p \in 0..(Len(inputs[i]) - 1) : LabelFromOwnWindow(i, p)

\* three windows with a context of one character on each side, merged with
\* labels that differ from character to character
C3_Witness ==
    /\ Classification /\ pc = "render" /\ policy = "fix"
    /\ context_size > 0
    /\ \E i \in 1..Len(inputs) :
          /\ Len(all_inference_results[i - 1]) >= 3
          /\ \E p \in 1..Len(inputs[i]) : inference_results[i].predictions[p + 1] = 2
          /\ \E p \in 1..Len(inputs[i]) : inference_results[i].predictions[p + 1] = 1

(***************************************************************************)
(* C4.  On the generation path a call that returns text returns, for every *)
(* input, a string that without its spaces is the input without its        *)
(* spaces; and it returns only if every merged token stream is faithful,   *)
(* that is, has as many non-space tokens as the input has non-space        *)
(* characters, each the character at its place or the unknown token.  A    *)
(* call whose merged stream is not faithful fails.                         *)
(***************************************************************************)
Faithful(token_ids, input_str) ==
    LET tokens == SelectSeq(StripMarkers(token_ids), LAMBDA t : t # ws_token_id)
        chars == RemoveSpaces(input_str)
    IN  /\ Len(tokens) = Len(chars)
        /\ \A m \in 1..Len(tokens) : tokens[m] = unk_token_id \/ tokens[m] = chars[m]

\* C4: a rendered generation output without its spaces is the input without its spaces
C4_RenderedKeepsCharacters ==
    (Generation /\ pc = "done") =>
        \A i \in 1..Len(inputs) :
            /\ RemoveSpaces(returned.strings[i]) = RemoveSpaces(inputs[i])
            /\ Faithful(inference_results[i].token_ids, inputs[i])

\* a returned text merged from several windows, with an unknown token
\* rendered and with spaces other than the input's
C4_Witness ==
    /\ Generation /\ pc = "done"
    /\ \E i \in 1..Len(inputs) :
          /\ LongInput(i)
          /\ \E m \in 1..Len(inference_results[i].token_ids) :
                inference_results[i].token_ids[m] = unk_token_id
          /\ returned.strings[i] # inputs[i]

(***************************************************************************)
(* C8.  An input that is not longer than max_length gets exactly one batch *)
(* entry, (input_idx, 0, length, 0): the whole input, window position 0.   *)
(* Its merged result is the result the adapter returned for it, unchanged  *)
(* (of a ranked list of candidates, the first candidate, unchanged).       *)
(***************************************************************************)
EntriesFor(input_idx) ==
    SelectSeq(batches, LAMBDA e : e[1] = input_idx)

UsedResult(answer) == IF answer.kind = "list" THEN answer.candidates[1] ELSE answer

SingleEntry(i) ==
    /\ EntriesFor(i - 1) = << <<i - 1, 0, Len(inputs[i]), 0>> >>
    /\ Len(all_inference_results[i - 1]) = 1

SingleResultUnchanged(i) ==
    /\ Cardinality(AnswersTo(i - 1, 0)) = 1
    /\ \A a \in AnswersTo(i - 1, 0) :
          /\ calls[a[1]].batch_sequences[a[2]] = inputs[i]
          /\ inference_results[i] = UsedResult(calls[a[1]].results[a[2]])

\* C8: an input of at most max_length gets one entry and its result is returned unchanged
C8_ShortInputPassesThrough ==
    \A i \in 1..Len(inputs) : ~LongInput(i) =>
        /\ pc \in {"loop", "render", "done"} => SingleEntry(i)
        /\ pc = "render" => SingleResultUnchanged(i)

\* an input longer than one window and not longer than max_length, merged
\* beside an input that was split
C8_Witness ==
    /\ pc = "render"
    /\ Len(inputs) = 2
    /\ Len(inputs[1]) > window_size /\ Len(inputs[1]) <= max_length
    /\ LongInput(2)
    /\ SingleResultUnchanged(1)

(***************************************************************************)
(* C9.  Every substring sent to the adapter is at most max_length long;    *)
(* window_size plus twice context_size does not exceed max_length.         *)
(***************************************************************************)
\* C9: no substring sent to the adapter is longer than max_length
C9_SubstringsFitContext ==
    /\ window_size + 2 * context_size <= max_length
    /\ \A e \in 1..Len(batches) : batches[e][3] - batches[e][2] <= max_length
    /\ \A c \in 1..Len(calls) : \A k \in 1..Len(calls[c].batch_sequences) :
           Len(calls[c].batch_sequences[k]) <= max_length

\* a window sent with its whole left and right context, max_length long
C9_Witness ==
    /\ context_size > 0
    /\ \E c \in 1..Len(calls) : \E k \in 1..Len(calls[c].batch) :
          /\ calls[c].batch[k][4] > 0
          /\ Len(calls[c].batch_sequences[k]) = max_length
          /\ Len(calls[c].batch_sequences[k]) = window_size + 2 * context_size

(***************************************************************************)
(* The call with its batch entries dispatched in any order: the entries    *)
(* are those of Schedule, permuted, and the rest of the call is unchanged. *)
(***************************************************************************)
PermutationsOf(entries) ==
    {[k \in 1..Len(entries) |-> entries[f[k]]] : f \in Permutations(1..Len(entries))}

PlannedEntries(a) ==
    AllEntries([i \in 1..Len(a.strings) |-> clean_sequence(a.strings[i])], 0,
               max_length, window_size, context_size)

InitShuffled ==
    /\ Init
    /\ arg.type = "list" /\ ValidArgument(arg)
    /\ policy \in {"fix", "respace"}
    /\ max_length = MaxLengthOf(MaxNumEmbeddings)
    /\ Len(arg.strings) > 1 => arg.strings[1] \in {RawString(PlainText, n) : n \in 0..MaxLen}
    /\ Len(PlannedEntries(arg)) <= MaxShuffledEntries

ScheduleShuffled ==
    /\ pc = "schedule"
    /\ batches' \in PermutationsOf(OrderBatches(
                      AllEntries(inputs, 0, max_length, window_size, context_size),
                      sort_by_length))
    /\ all_inference_results' = EmptySlots(inputs, max_length, window_size, context_size)
    /\ batch_idx' = 0
    /\ pc' = "loop"
    /\ UNCHANGED <<config, inputs, calls, inference_results, returned, error>>

NextShuffled == Validate \/ ScheduleShuffled \/ Dispatch \/ Merge \/ Render

SpecShuffled == InitShuffled /\ [][NextShuffled]_vars

(***************************************************************************)
(* C5.  With an adapter whose result for a substring depends on the        *)
(* substring alone, the slots of every input after the batch loop hold, at *)
(* each window position, the adapter's result for that window's substring, *)
(* and the merged result is the merge of these: the same for               *)
(* sort_by_length true and false, for every batch_size and for every order *)
(* in which the entries are dispatched.                                    *)
(***************************************************************************)
\* the adapter's results for the windows of input i, asked one at a time in
\* plan order
ReferenceSlots(i) ==
    LET entries == EntriesOf(i - 1, Len(inputs[i]), max_length, window_size, context_size)
    IN  [k \in 1..Len(entries) |->
            Inference(model_type, policy,
                      <<Slice(inputs[i], entries[k][2], entries[k][3])>>)[1]]

ReferenceMerged(i) ==
    _merge_inference_results(ReferenceSlots(i), inputs[i], window_size, context_size)

\* C5: slots and merged results do not depend on sorting, batch size or dispatch order
C5_MergeIndependentOfDispatch ==
    /\ LoopDone => \A i \in 1..Len(inputs) :
           all_inference_results[i - 1] = ReferenceSlots(i)
    /\ pc = "render" => \A i \in 1..Len(inputs) :
           inference_results[i] = ReferenceMerged(i)
    /\ (pc = "failed" /\ Len(calls) > 0 /\ inference_results = <<>>) =>
           \E i \in 1..Len(inputs) :
           IsError(ReferenceMerged(i))

\* an input of three windows merged after its entries went out in two or
\* more batches, in an order that is neither the plan's nor the sorted one
C5_Witness ==
    /\ pc = "render"
    /\ Len(calls) >= 2
    /\ batches # AllEntries(inputs, 0, max_length, window_size, context_size)
    /\ batches # SortedByLength(
                     AllEntries(inputs, 0, max_length, window_size, context_size), <<>>)
    /\ \E i \in 1..Len(inputs) : Len(all_inference_results[i - 1]) >= 3
    /\ \E c \in 1..Len(calls) : Len(calls[c].batch) >= 2

(***************************************************************************)
(* C10.  repair_text returns what it was given: a string for a string, a   *)
(* list of n strings for a list of n strings, and output i is the          *)
(* rendering, against the cleaned input i, of the merge of the adapter's   *)
(* results for the windows of input i, whatever the order of the entries.  *)
(***************************************************************************)
\* C10: repair_text returns the argument's shape, output i rendered from input i
C10_SameShapeSameOrder ==
    pc = "done" =>
        /\ returned.type = arg.type
        /\ Len(returned.strings) = Len(arg.strings)
        /\ \A i \in 1..Len(arg.strings) :
              /\ inputs[i] = clean_sequence(arg.strings[i])
              /\ Str(returned.strings[i]) =
                     _inference_result_to_str(ReferenceMerged(i), inputs[i])

\* a list of two texts whose second text was dispatched first
C10_Witness ==
    /\ pc = "done"
    /\ arg.type = "list" /\ Len(returned.strings) = 2
    /\ batches[1][1] = 1
    /\ returned.strings[1] # returned.strings[2]
    /\ inputs[1] # arg.strings[1]

(***************************************************************************)
(* _merge_inference_results called on its own: the results of one input,   *)
(* as many as the caller likes, are merged against the input.  The first   *)
(* results are the adapter's answers for the input's entries, in window    *)
(* order; results beyond the plan repeat the last answer.                  *)
(***************************************************************************)
PlannedCount(length) ==
    Len(EntriesOf(0, length, max_length, window_size, context_size))

ReceivedResults(input_str, count) ==
    LET entries == EntriesOf(0, Len(input_str), max_length, window_size, context_size)
    IN  [k \in 1..count |->
            LET e == entries[Min(k, Len(entries))]
            IN  Inference(model_type, policy, <<Slice(input_str, e[2], e[3])>>)[1]]

InitMerger ==
    /\ model_type \in {"encoder_with_head", "transformer"}
    /\ policy \in (IF model_type = "encoder_with_head"
                   THEN ClassificationPolicies ELSE {"echo", "respace", "beam"})
    /\ \E max_num_embeddings \in {MaxNumEmbeddings - 4, MaxNumEmbeddings} :
          /\ max_length = MaxLengthOf(max_num_embeddings)
          /\ window_size = WindowSizeOf(MaxLengthOf(max_num_embeddings))
          /\ context_size = ContextSizeOf(MaxLengthOf(max_num_embeddings))
    /\ arg \in {[type |-> "list", strings |-> <<s>>] : s \in RawStrings}
    /\ batch_size = 1
    /\ sort_by_length = FALSE
    /\ inputs = <<clean_sequence(arg.strings[1])>>
    /\ batches = <<>>
    /\ batch_idx = 0
    /\ \E count \in 0..(PlannedCount(Len(clean_sequence(arg.strings[1]))) + 1) :
          all_inference_results =
              [input_idx \in {0} |->
                  ReceivedResults(clean_sequence(arg.strings[1]), count)]
    /\ calls = <<>>
    /\ inference_results = <<>>
    /\ returned = NoReturn
    /\ error = "none"
    /\ pc = "merger_call"

MergeCall ==
    /\ pc = "merger_call"
    /\ LET merged == _merge_inference_results(all_inference_results[0], inputs[1],
                                              window_size, context_size)
       IN  IF IsError(merged)
           THEN /\ inference_results' = inference_results
                /\ error' = merged.error
                /\ pc' = "merger_raised"
           ELSE /\ inference_results' = <<merged>>
                /\ error' = "none"
                /\ pc' = "merger_returned"
    /\ UNCHANGED <<config, inputs, batches, batch_idx, all_inference_results,
                   calls, returned>>

NextMerger == MergeCall

SpecMerger == InitMerger /\ [][NextMerger]_vars

(***************************************************************************)
(* C7.  Whenever the merger receives a number of results that differs from *)
(* the number of windows planned for the input, it raises and returns no   *)
(* merged result, on the classification and on the generation path, also   *)
(* for one result for an input planned as several windows.                 *)
(***************************************************************************)
CountMismatch == Len(all_inference_results[0]) # PlannedCount(Len(inputs[1]))

\* C7: a result count other than the planned window count makes the merger raise
C7_CountMismatchAborts ==
    (pc \in {"merger_returned", "merger_raised"} /\ CountMismatch) =>
        (pc = "merger_raised" /\ inference_results = <<>>)

(***************************************************************************)
(* The merger behind a planner that is at fault: the window starts are     *)
(* spaced by window_size - 1, so that neighbouring cores share a position. *)
(* One result per window comes in, the adapter's answer for the window     *)
(* with its context.                                                       *)
(***************************************************************************)
OverlappingWindows(length, ws) ==
    [i \in 1..((length + ws - 2) \div (ws - 1)) |-> (i - 1) * (ws - 1)]

OverlappingResults(input_str) ==
    LET windows == OverlappingWindows(Len(input_str), window_size)
    IN  [k \in 1..Len(windows) |->
            Inference(model_type, policy,
                      <<Slice(input_str,
                              ExpandedFrom(windows[k], context_size),
                              ExpandedTo(Len(input_str), windows[k], window_size,
                                         context_size))>>)[1]]

InitPlannerFault ==
    /\ model_type = "encoder_with_head"
    /\ policy \in ClassificationPolicies
    /\ \E max_num_embeddings \in {MaxNumEmbeddings - 4, MaxNumEmbeddings} :
          /\ max_length = MaxLengthOf(max_num_embeddings)
          /\ window_size = WindowSizeOf(MaxLengthOf(max_num_embeddings))
          /\ context_size = ContextSizeOf(MaxLengthOf(max_num_embeddings))
    /\ arg \in {[type |-> t, strings |-> <<s>>] : t \in {"str", "list"}, s \in RawStrings}
    /\ Len(clean_sequence(arg.strings[1])) > max_length
    /\ batch_size = 1
    /\ sort_by_length = FALSE
    /\ inputs = <<clean_sequence(arg.strings[1])>>
    /\ batches = <<>>
    /\ batch_idx = 0
    /\ all_inference_results =
           [input_idx \in {0} |-> OverlappingResults(clean_sequence(arg.strings[1]))]
    /\ calls = <<>>
    /\ inference_results = <<>>
    /\ returned = NoReturn
    /\ error = "none"
    /\ pc = "merger_call"

MergeCallPlannerFault ==
    /\ pc = "merger_call"
    /\ LET merged == MergeWithWindows(all_inference_results[0], inputs[1],
                                      OverlappingWindows(Len(inputs[1]), window_size),
                                      window_size, context_size)
       IN  IF IsError(merged)
           THEN /\ inference_results' = inference_results
                /\ error' = merged.error
                /\ pc' = "merger_raised"
           ELSE /\ inference_results' = <<merged>>
                /\ error' = "none"
                /\ pc' = "merger_returned"
    /\ UNCHANGED <<config, inputs, batches, batch_idx, all_inference_results,
                   calls, returned>>

NextPlannerFault == MergeCallPlannerFault

SpecPlannerFault == InitPlannerFault /\ [][NextPlannerFault]_vars

(***************************************************************************)
(* C6.  If two windows both contribute a value to one position of the      *)
(* merged classification buffer, the merger raises; it never returns a     *)
(* result in which the later window's value replaced the earlier one's.    *)
(***************************************************************************)
WrittenTwice(length, windows, ws) ==
    \E p \in 0..(length - 1) : \E k1, k2 \in 1..Len(windows) :
        /\ k1 < k2
        /\ CoreStart(windows[k1], length) <= p /\ p < CoreEnd(windows[k1], ws, length)
        /\ CoreStart(windows[k2], length) <= p /\ p < CoreEnd(windows[k2], ws, length)

\* C6: a position written by two windows makes the merger raise
C6_OverlapRaises ==
    (/\ pc \in {"merger_returned", "merger_raised"}
     /\ WrittenTwice(Len(inputs[1]),
                     OverlappingWindows(Len(inputs[1]), window_size), window_size))
        => pc = "merger_raised"

(***************************************************************************)
(* C11.  The merged generation result of an input of several windows is   *)
(* the begin marker, the slices [from_idx, to_idx) of the windows'         *)
(* marker-stripped token ids in window order, and the end marker; its      *)
(* log-probabilities are 0, the log-probabilities of the same slices in    *)
(* the same order, and 0, as many as there are token ids.                  *)
(***************************************************************************)
\* the result used for window k (1-based) of input i, and its matched slice
WindowResult(i, k) == UsedResult(all_inference_results[i - 1][k])

WindowMatch(i, k) ==
    MatchWindow(WindowResult(i, k), inputs[i],
                sliding_windows(Len(inputs[i]), window_size)[k],
                window_size, context_size)

\* seqs[1] \o ... \o seqs[n]
RECURSIVE Concat(_, _)
Concat(seqs, n) == IF n = 0 THEN <<>> ELSE Concat(seqs, n - 1) \o seqs[n]

SlicedTokens(i) ==
    [k \in 1..Len(all_inference_results[i - 1]) |->
        SubSeq(WindowResult(i, k).token_ids,
               WindowMatch(i, k).from_idx + 2, WindowMatch(i, k).to_idx + 1)]

SlicedLogProbs(i) ==
    [k \in 1..Len(all_inference_results[i - 1]) |->
        SubSeq(WindowResult(i, k).token_log_probabilities,
               WindowMatch(i, k).from_idx + 2, WindowMatch(i, k).to_idx + 1)]

MergedAsSlices(i) ==
    LET n == Len(all_inference_results[i - 1])
        merged == inference_results[i]
    IN  /\ merged.token_ids = <<BOS>> \o Concat(SlicedTokens(i), n) \o <<EOS>>
        /\ merged.token_log_probabilities = <<0>> \o Concat(SlicedLogProbs(i), n) \o <<0>>
        /\ Len(merged.token_log_probabilities) = Len(merged.token_ids)

\* C11: the merged stream is BOS, the windows' matched slices in window order, EOS, with matching log-probabilities
C11_MergedStreamIsSlices ==
    (Generation /\ pc = "render") =>
        \A i \in 1..Len(inputs) : LongInput(i) => MergedAsSlices(i)

\* an input merged from three windows with spaces in its stream, a slice
\* that starts behind skipped left-context tokens and a slice that ends
\* before right-context tokens
C11_Witness ==
    /\ Generation /\ pc = "render" /\ context_size > 0
    /\ \E i \in 1..Len(inputs) :
          /\ Len(all_inference_results[i - 1]) >= 3
          /\ MergedAsSlices(i)
          /\ \E m \in 1..Len(inference_results[i].token_ids) :
                inference_results[i].token_ids[m] = ws_token_id
    /\ \E i \in 1..Len(inputs) : \E k \in 1..Len(all_inference_results[i - 1]) :
          LongInput(i) /\ WindowMatch(i, k).from_idx > 0
    /\ \E i \in 1..Len(inputs) : \E k \in 1..Len(all_inference_results[i - 1]) :
          LongInput(i) /\ WindowMatch(i, k).to_idx < Len(WindowResult(i, k).token_ids) - 2

(***************************************************************************)
(* C12.  The rendering of a generation result has one character per token *)
(* of the merged stream: a space for a whitespace token, the decoded       *)
(* character for any other token, and for the unknown token the character  *)
(* of the space-stripped input at the pointer, which counts the non-space  *)
(* tokens emitted before.  No placeholder glyph is ever returned, and a    *)
(* faithful stream, with or without unknown tokens, is always rendered.    *)
(***************************************************************************)
RenderedTokenByToken(i) ==
    LET tokens == StripMarkers(inference_results[i].token_ids)
        no_spaces == RemoveSpaces(inputs[i])
        output == returned.strings[i]
    IN  /\ Len(output) = Len(tokens)
        /\ \A k \in 1..Len(tokens) :
              /\ output[k] # UNK
              /\ tokens[k] = ws_token_id => output[k] = " "
              /\ tokens[k] \notin {ws_token_id, unk_token_id} =>
                     output[k] = id_to_token(tokens[k])
              /\ tokens[k] = unk_token_id =>
                     output[k] = no_spaces[NonSpaceBefore(tokens, k)]

\* a render that raised: the merge had returned and nothing was returned
RenderRaised == pc = "failed" /\ inference_results # <<>>

\* C12: spaces for whitespace tokens, decoded characters otherwise, the input's character at the pointer for an unknown token
C12_UnknownRenderedFromInput ==
    Generation =>
        /\ pc = "done" => \A i \in 1..Len(inputs) : RenderedTokenByToken(i)
        /\ RenderRaised =>
               \E i \in 1..Len(inputs) :
                   ~Faithful(inference_results[i].token_ids, inputs[i])

\* an unknown token behind a whitespace token, rendered as the 'x' it stands
\* for
C12_Witness ==
    /\ Generation /\ pc = "done"
    /\ \E i \in 1..Len(inputs) :
          LET tokens == StripMarkers(inference_results[i].token_ids)
          IN  \E k \in 1..Len(tokens) :
                  /\ tokens[k] = unk_token_id
                  /\ returned.strings[i][k] = "x"
                  /\ NonSpaceBefore(tokens, k) < k
                  /\ RemoveSpaces(inputs[i])[NonSpaceBefore(tokens, k)] = "x"

(***************************************************************************)
(* C13.  Under beam search every slot holds a ranked list of candidates.   *)
(* The merged result of an input is the merge of the rank-0 candidates of  *)
(* its windows, taken as plain results, and stays the same when the        *)
(* candidate ranked below is replaced, in any one window, by any other     *)
(* stream for that window's substring.                                     *)
(***************************************************************************)
\* other streams the adapter could have ranked second for a substring
OtherCandidates(substring) ==
    {GenerationResultOf(GeneratedTokens(p, substring)) : p \in {"echo", "wrong", "extra"}}
    \cup {GenerationResultOf(<<>>)}

SentSubstring(i, k) ==
    LET e == EntriesOf(i - 1, Len(inputs[i]), max_length, window_size, context_size)[k]
    IN  Slice(inputs[i], e[2], e[3])

ReplaceLowerRanked(slots, k, candidate) ==
    [slots EXCEPT ![k] = BeamList(<<slots[k].candidates[1], candidate>>)]

RankZeroOnly(slots) == [k \in 1..Len(slots) |-> slots[k].candidates[1]]

MergeOf(slots, i) == _merge_inference_results(slots, inputs[i], window_size, context_size)

\* C13: under beam search the merged result depends on the rank-0 candidates only
C13_OnlyTopCandidateUsed ==
    (policy = "beam" /\ pc \in {"loop", "render"} /\ batch_idx >= Len(batches)) =>
        \A i \in 1..Len(inputs) :
            LET slots == all_inference_results[i - 1]
                top == MergeOf(RankZeroOnly(slots), i)
            IN  /\ pc = "render" => inference_results[i] = top
                /\ pc = "loop" =>
                       /\ MergeOf(slots, i) = top
                       /\ \A k \in 1..Len(slots) :
                              \A candidate \in OtherCandidates(SentSubstring(i, k)) :
                                  MergeOf(ReplaceLowerRanked(slots, k, candidate), i) = top

\* beam search on an input of one window and an input of three windows,
\* each window with a lower-ranked candidate that is not the top one
C13_Witness ==
    /\ policy = "beam" /\ pc = "render"
    /\ \E i \in 1..Len(inputs) : Len(all_inference_results[i - 1]) = 1
    /\ \E i \in 1..Len(inputs) : Len(all_inference_results[i - 1]) >= 3
    /\ \A i \in 1..Len(inputs) : \A k \in 1..Len(all_inference_results[i - 1]) :
          /\ Len(all_inference_results[i - 1][k].candidates) = 2
          /\ all_inference_results[i - 1][k].candidates[1]
                 # all_inference_results[i - 1][k].candidates[2]

(***************************************************************************)
(* The call with an adapter that may raise: self.model.inference raises on *)
(* any batch it is given, or answers it.  Neither _repair_text_raw nor     *)
(* repair_text has a try statement, so the exception leaves both.          *)
(***************************************************************************)
\* mutant: the exception is caught and the batch loop goes on
Swallowed(e) == [pc |-> "loop", error |-> e]

\* the exception leaves the batch loop, _repair_text_raw and repair_text
Propagated(e) == [pc |-> "failed", error |-> e]

\* the record of an adapter call that raised: no results
RaisedCall(batch, batch_sequences) ==
    [batch |-> batch,
     batch_sequences |-> batch_sequences,
     kwargs |-> Kwargs(model_type, batch, batch_sequences),
     results |-> <<>>]

AdapterFails ==
    /\ pc = "loop"
    /\ batch_idx < Len(batches)
    /\ LET batch == Batch(batches, batch_idx, batch_size)
       IN  calls' = Append(calls, RaisedCall(batch, BatchSequences(inputs, batch)))
    /\ pc' = Propagated("AdapterError").pc
    /\ error' = Propagated("AdapterError").error
    /\ UNCHANGED <<config, inputs, batches, batch_idx, all_inference_results,
                   inference_results, returned>>

InitAdapterFault == Init /\ max_length <= MaxLengthOf(MaxNumEmbeddings)

NextAdapterFault == Validate \/ Schedule \/ Dispatch \/ AdapterFails \/ Merge \/ Render

SpecAdapterFault == InitAdapterFault /\ [][NextAdapterFault]_vars

(***************************************************************************)
(* C14.  Once an adapter call has raised, the repair call has failed with  *)
(* the adapter's exception: the call that raised is the last adapter call  *)
(* ever made and the only one for its batch, nothing was merged, nothing   *)
(* is returned, and the slots filled by earlier batches are never read.    *)
(***************************************************************************)
Raised(c) == calls[c].results = <<>>

AdapterRaised == \E c \in 1..Len(calls) : Raised(c)

\* the slots of input i (1-based) are all filled
AllAnswered(i) ==
    \A k \in 1..Len(all_inference_results[i - 1]) : all_inference_results[i - 1][k] # None

\* C14: an adapter failure ends the call, with no retry, no later batch, no merge, no rendering, no output
C14_AdapterFailureAborts ==
    /\ error = "AdapterError" <=> AdapterRaised
    /\ AdapterRaised =>
          /\ pc = "failed"
          /\ Raised(Len(calls))
          /\ \A c \in 1..(Len(calls) - 1) :
                 ~Raised(c) /\ calls[c].batch # calls[Len(calls)].batch
          /\ calls[Len(calls)].batch = Batch(batches, batch_idx, batch_size)
          /\ batch_idx = (Len(calls) - 1) * batch_size
          /\ inference_results = <<>>
          /\ returned = NoReturn

\* the adapter raises on the last of three batches, after every window of
\* the first input had been answered
C14_Witness ==
    /\ AdapterRaised /\ pc = "failed"
    /\ Len(calls) >= 3
    /\ Len(inputs) = 2
    /\ AllAnswered(1)
    /\ ~AllAnswered(2)
    /\ returned = NoReturn

(***************************************************************************)
(* C15.  An argument that is neither a string nor a non-empty list of      *)
(* strings ends the call before anything is planned: no batch entry and no *)
(* result slot is ever made for it, the adapter is never called and        *)
(* nothing is returned.                                                    *)
(***************************************************************************)
StringOrListOfStrings(a) == a.type = "str" \/ (a.type = "list" /\ Len(a.strings) > 0)

NothingPlanned ==
    /\ inputs = <<>>
    /\ batches = <<>>
    /\ all_inference_results = <<>>
    /\ calls = <<>>
    /\ inference_results = <<>>
    /\ returned = NoReturn

\* C15: an empty list or an argument of a wrong type is rejected before planning and before any adapter call
C15_RejectedBeforePlanning ==
    ~StringOrListOfStrings(arg) =>
        /\ pc \in {"call", "failed"}
        /\ NothingPlanned
        /\ pc = "failed" => error \in {"AssertionError", "TypeError"}

\* the three rejected arguments: the empty list, an object that is no list,
\* a list with an item that is no string
C15_Witness ==
    /\ pc = "failed"
    /\ NothingPlanned
    /\ \/ arg.type = "list" /\ arg.strings = <<>> /\ error = "AssertionError"
       \/ arg.type = "other" /\ error = "AssertionError"
       \/ arg.type = "mixed" /\ error = "TypeError"

(***************************************************************************)
(* C16.  For a classification model, the no_spaces flag passed with every  *)
(* entry of a batch is true exactly when the substring sent for that entry *)
(* holds no space.                                                         *)
(***************************************************************************)
HoldsSpace(substring) == \E m \in 1..Len(substring) : substring[m] = " "

\* C16: no_spaces[k] is true exactly when the k-th substring of the batch has no space
C16_NoSpacesFlagMatchesSubstring ==
    Classification =>
        \A c \in 1..Len(calls) :
            /\ Len(calls[c].kwargs.no_spaces) = Len(calls[c].batch_sequences)
            /\ \A k \in 1..Len(calls[c].batch_sequences) :
                   calls[c].kwargs.no_spaces[k] = ~HoldsSpace(calls[c].batch_sequences[k])

(***************************************************************************)
(* C17.  Every slot (input_idx, position) is answered by at most one entry *)
(* of one adapter call; it is empty until then and holds, from then on,    *)
(* the adapter's result for the substring of its own window.  When the     *)
(* batch loop has ended, and so whenever a merge has run, every batch has  *)
(* been dispatched and no slot is empty.                                   *)
(***************************************************************************)
SlotWrittenOnce(i, k) ==
    LET slot == all_inference_results[i - 1][k]
        answers == AnswersTo(i - 1, k - 1)
    IN  /\ Cardinality(answers) <= 1
        /\ slot = None <=> answers = {}
        /\ \A a \in answers :
              /\ calls[a[1]].batch_sequences[a[2]] = SentSubstring(i, k)
              /\ slot = calls[a[1]].results[a[2]]
              /\ slot = Inference(model_type, policy, <<SentSubstring(i, k)>>)[1]

\* a merge is about to run, has run, or has raised
MergeReached ==
    \/ pc = "loop" /\ batch_idx >= Len(batches)
    \/ pc \in {"render", "done"}
    \/ pc = "failed" /\ inputs # <<>>

\* C17: each slot is written once with its own entry's result, and merging starts only when all slots are filled
C17_SlotsFilledOnceBeforeMerge ==
    /\ pc \in {"loop", "render", "done"} =>
           \A i \in 1..Len(inputs) : \A k \in 1..Len(all_inference_results[i - 1]) :
               SlotWrittenOnce(i, k)
    /\ MergeReached =>
           /\ batch_idx >= Len(batches)
           /\ \A i \in 1..Len(inputs) : AllAnswered(i)
    /\ inference_results # <<>> => MergeReached

\* two inputs, one of three windows, answered by two or more sorted batches
\* of several entries each and then merged
C17_Witness ==
    /\ pc = "render"
    /\ sort_by_length
    /\ batches # AllEntries(inputs, 0, max_length, window_size, context_size)
    /\ Len(inputs) = 2
    /\ \E i \in 1..Len(inputs) : Len(all_inference_results[i - 1]) >= 3
    /\ Len(calls) >= 2
    /\ \A c \in 1..(Len(calls) - 1) : Len(calls[c].batch) >= 2
    /\ \A i \in 1..Len(inputs) : \A k \in 1..Len(all_inference_results[i - 1]) :
          SlotWrittenOnce(i, k) /\ all_inference_results[i - 1][k] # None

(***************************************************************************)
(* C18.  The adapter calls cut the list of batch entries into consecutive  *)
(* runs: call c carries the entries (c - 1) * batch_size + 1 up to         *)
(* c * batch_size of the list, at least one and at most batch_size of      *)
(* them, so every entry goes out in exactly one call, and the loop ends    *)
(* after ceil(N / batch_size) calls, N the number of entries.              *)
(***************************************************************************)
\* ceil(n / d)
CeilDiv(n, d) == (n + d - 1) \div d

\* the calls that carry the n-th entry (1-based) of batches
CallsCarrying(n) ==
    {<<c, j>> \in (1..Len(calls)) \X (1..Len(batches)) :
        j <= Len(calls[c].batch) /\ calls[c].batch[j] = batches[n]}

ConsecutiveRuns ==
    \A c \in 1..Len(calls) :
        /\ 1 <= Len(calls[c].batch) /\ Len(calls[c].batch) <= batch_size
        /\ Len(calls[c].batch) = Min(batch_size, Len(batches) - (c - 1) * batch_size)
        /\ \A j \in 1..Len(calls[c].batch) :
               calls[c].batch[j] = batches[(c - 1) * batch_size + j]
        /\ Len(calls[c].batch_sequences) = Len(calls[c].batch)
        /\ Len(calls[c].results) = Len(calls[c].batch)

\* C18: the calls partition the entries in list order, 1 to batch_size entries each, ceil(N / batch_size) calls in all
C18_BatchesPartitionEntries ==
    pc \in {"loop", "render", "done"} =>
        /\ ConsecutiveRuns
        /\ Len(calls) <= CeilDiv(Len(batches), batch_size)
        /\ \A n \in 1..Len(batches) :
               /\ Cardinality(CallsCarrying(n)) <= 1
               /\ CallsCarrying(n) # {} <=> n <= Len(calls) * batch_size
        /\ batch_idx < Len(batches) => Len(calls) < CeilDiv(Len(batches), batch_size)
        /\ LoopDone =>
               /\ Len(calls) = CeilDiv(Len(batches), batch_size)
               /\ \A n \in 1..Len(batches) : Cardinality(CallsCarrying(n)) = 1

\* a loop that has ended after three or more calls, the last one short
C18_Witness ==
    /\ LoopDone
    /\ batch_size >= 2
    /\ Len(batches) % batch_size # 0
    /\ Len(calls) >= 3
    /\ Len(calls) = CeilDiv(Len(batches), batch_size)
    /\ Len(calls[Len(calls)].batch) < batch_size

(***************************************************************************)
(* C19.  For every window of an input longer than max_length, the left     *)
(* context, the core and the right context that the generation merger cuts *)
(* from the input are, put together, the substring that was sent for that  *)
(* window: it starts at max(0, window - context_size) and ends at          *)
(* min(length, window + window_size + context_size).                       *)
(***************************************************************************)
CutsOf(input_str, window, ws, cs) ==
    LeftContext(input_str, window, cs) \o CoreWindow(input_str, window, ws)
        \o RightContext(input_str, window, ws, cs)

\* the cuts for window position k - 1 of input i against a sent entry and
\* its substring
CutsAreSent(i, k, entry, substring) ==
    LET window == sliding_windows(Len(inputs[i]), window_size)[k]
        left == LeftContext(inputs[i], window, context_size)
        core == CoreWindow(inputs[i], window, window_size)
        right == RightContext(inputs[i], window, window_size, context_size)
    IN  /\ left \o core \o right = substring
        /\ entry[2] = window - Len(left)
        /\ entry[3] = window + Len(core) + Len(right)
        /\ Len(left) = Min(context_size, window)
        /\ Len(right) = Max(0, Min(context_size, Len(inputs[i]) - window - window_size))

\* the same for every window size and context size up to the window size
CutsAreExpandedWindow(input_str) ==
    \A ws \in 1..MaxNumEmbeddings : \A cs \in 0..ws :
        LET windows == sliding_windows(Len(input_str), ws)
        IN  \A k \in 1..Len(windows) :
                CutsOf(input_str, windows[k], ws, cs)
                    = Slice(input_str, ExpandedFrom(windows[k], cs),
                            ExpandedTo(Len(input_str), windows[k], ws, cs))

\* C19: left context, core and right context of a window concatenate to the substring sent for it
C19_CutsMatchSentSubstring ==
    /\ Generation =>
           \A c \in 1..Len(calls) : \A j \in 1..Len(calls[c].batch) :
               LET entry == calls[c].batch[j]
               IN  LongInput(entry[1] + 1) =>
                       CutsAreSent(entry[1] + 1, entry[4] + 1, entry,
                                   calls[c].batch_sequences[j])
    /\ (pc = "loop" /\ batch_idx = 0) =>
           \A i \in 1..Len(inputs) :
               Len(inputs[i]) <= MaxLen => CutsAreExpandedWindow(inputs[i])

\* a generation call in which a first window without left context, a
\* window with both contexts in full and a last window with its right
\* context clipped have been sent
C19_Witness ==
    /\ Generation /\ context_size > 0 /\ LoopDone
    /\ \E i \in 1..Len(inputs) :
          /\ LongInput(i)
          /\ Len(all_inference_results[i - 1]) >= 3
          /\ Len(SentSubstring(i, 1)) = window_size + context_size
          /\ Len(SentSubstring(i, 2)) = window_size + 2 * context_size
          /\ LET n == Len(all_inference_results[i - 1])
             IN  Len(SentSubstring(i, n)) < window_size + context_size
          /\ \A k \in 1..Len(all_inference_results[i - 1]) :
                Cardinality(AnswersTo(i - 1, k - 1)) = 1

(***************************************************************************)
(* C20.  For a window whose stream is faithful to the substring sent for   *)
(* it, the matcher returns a slice [from_idx, to_idx) of the stream with   *)
(* as many non-space tokens in front of it as the window's left context    *)
(* has non-space characters, and with as many non-space tokens in it as    *)
(* the window's core has.  For a stream with fewer non-space tokens than   *)
(* left context and core have together, or with more than the whole        *)
(* substring has, the matcher fails and the merge of that input raises.    *)
(***************************************************************************)
\* non-space characters of input i in [from_, to_), both clipped to the input
NonSpaceIn(i, from_, to_) == NonSpaceCount(Slice(inputs[i], Max(0, from_), Max(0, to_)))

\* window k of input i: non-space characters of its left context, core and
\* right context, from the window's place in the input
CountsOf(i, k) ==
    LET window == (k - 1) * window_size
    IN  [left |-> NonSpaceIn(i, window - context_size, window),
         core |-> NonSpaceIn(i, window, window + window_size),
         right |-> NonSpaceIn(i, window + window_size,
                              window + window_size + context_size)]

SliceHoldsCore(i, k) ==
    LET stream == StripMarkers(WindowResult(i, k).token_ids)
        m == WindowMatch(i, k)
    IN  /\ m.ok
        /\ 0 <= m.from_idx /\ m.from_idx <= m.to_idx /\ m.to_idx <= Len(stream)
        /\ NonSpaceBefore(stream, m.from_idx) = CountsOf(i, k).left
        /\ NonSpaceCount(Slice(stream, m.from_idx, m.to_idx)) = CountsOf(i, k).core

Irreconcilable(i, k) ==
    LET total == NonSpaceCount(StripMarkers(WindowResult(i, k).token_ids))
        counts == CountsOf(i, k)
    IN  \/ total < counts.left + counts.core
        \/ total > counts.left + counts.core + counts.right

\* the merge of input i was reached and raised before any later input's did
MergeRaisedFor(i) ==
    /\ pc = "failed" /\ inputs # <<>> /\ inference_results = <<>>
    /\ IsError(MergedResults[i])

\* C20: for a faithful stream the matched slice has the left context's non-space count before it and the core's in it; irreconcilable counts fail
C20_MatchedSliceCounts ==
    (Generation /\ MergeReached) =>
        \A i \in 1..Len(inputs) : LongInput(i) =>
            /\ \A k \in 1..Len(all_inference_results[i - 1]) :
                  /\ Faithful(WindowResult(i, k).token_ids, SentSubstring(i, k))
                         => SliceHoldsCore(i, k)
                  /\ Irreconcilable(i, k) => ~WindowMatch(i, k).ok
            /\ (\E k \in 1..Len(all_inference_results[i - 1]) : Irreconcilable(i, k))
                   => (pc \notin {"render", "done"}
                       /\ (pc = "failed" => MergeRaisedFor(i)))

\* faithful streams with spaces of their own: for one window the slice
\* starts behind the tokens of its left context, for one it ends before the
\* tokens of its right context, and it holds more tokens than the core has
\* non-space characters
C20_Witness ==
    /\ Generation /\ pc = "render" /\ policy = "respace" /\ context_size > 0
    /\ \E i \in 1..Len(inputs) : \E k \in 1..Len(all_inference_results[i - 1]) :
          /\ LongInput(i)
          /\ CountsOf(i, k).left > 0
          /\ Faithful(WindowResult(i, k).token_ids, SentSubstring(i, k))
          /\ SliceHoldsCore(i, k)
          /\ WindowMatch(i, k).from_idx > 0
          /\ WindowMatch(i, k).to_idx - WindowMatch(i, k).from_idx > CountsOf(i, k).core
    /\ \E i \in 1..Len(inputs) : \E k \in 1..Len(all_inference_results[i - 1]) :
          /\ LongInput(i)
          /\ CountsOf(i, k).right > 0
          /\ Faithful(WindowResult(i, k).token_ids, SentSubstring(i, k))
          /\ SliceHoldsCore(i, k)
          /\ WindowMatch(i, k).to_idx < Len(WindowResult(i, k).token_ids) - 2

====
